---- MODULE Spec2Model ----
(***************************************************************************)
(* Model of the Logitech G29 pipeline: the report decoder and change       *)
(* detector of src/src/data-map.ts (updateState, compareState and the      *)
(* field decoders) and the LogitechG29 class of src/unnamed/part_002       *)
(* (connect, disconnect, listen, the control encoders and relayOS).        *)
(*                                                                         *)
(* Numbers with two decimals (turn, pedals) are kept as integers in        *)
(* hundredths: turn 50.2 is 5020, pedal 0.5 is 50.  All other fields keep  *)
(* their integer value.  The store is a JavaScript object: a function      *)
(* whose domain is the set of keys assigned so far.                        *)
(***************************************************************************)
EXTENDS Integers, Sequences, FiniteSets, TLC

(***************************************************************************)
(* Bounds of the model.                                                    *)
(***************************************************************************)
\* number of sample reports (a prefix of AllReports) the transport may deliver
NumReports == 5
\* cap on the number of settle timers pending at the same time
MaxTimers == 1

(***************************************************************************)
(* Field keys, as written in updateState's pairs.                          *)
(***************************************************************************)
WheelFields ==
  { "wheel-dpad", "wheel-button_x", "wheel-button_square",
    "wheel-button_circle", "wheel-button_triangle",
    "wheel-shift_right", "wheel-shift_left", "wheel-button_r2",
    "wheel-button_l2", "wheel-button_share", "wheel-button_option",
    "wheel-button_r3", "wheel-button_l3", "wheel-button_plus",
    "wheel-spinner", "wheel-button_minus", "wheel-button_spinner",
    "wheel-button_playstation", "wheel-turn" }

ShifterFields == { "shifter-gear" }

PedalsFields == { "pedals-gas", "pedals-brake", "pedals-clutch" }

Fields == WheelFields \cup ShifterFields \cup PedalsFields

\* the JavaScript object {}
EmptyObject == [k \in {} |-> 0]

\* data[index] with JavaScript's 0-based index
At(data, index) == data[index + 1]

\* (value & mask) ? 1 : 0 for a one-bit mask; value & 1 for mask 1
BitTest(value, mask) == (value \div mask) % 2

(***************************************************************************)
(* Field decoders of data-map.ts.                                          *)
(***************************************************************************)
RECURSIVE reduceLoop(_, _, _)
reduceLoop(num, to, y) ==
  IF y > 1
    THEN IF num < to
           THEN num
           ELSE reduceLoop(IF num - y >= 0 THEN num - y ELSE num, to, y \div 2)
    ELSE num

\* mutant of reduceNumberFromTo: nothing is subtracted
reduceNumberFromTo_NoReduce(num, to) == num

reduceNumberFromTo(num, to) == reduceLoop(num, to * 2, 128)

wheelDpad(value) ==
  LET code == reduceNumberFromTo(value, 8) IN
  CASE code = 8 -> 0
    [] code = 7 -> 8
    [] code = 6 -> 7
    [] code = 5 -> 6
    [] code = 4 -> 5
    [] code = 3 -> 4
    [] code = 2 -> 3
    [] code = 1 -> 2
    [] code = 0 -> 1
    [] OTHER -> 0

\* mutant of shifterGear: the reverse code is not handled
shifterGear_NoReverse(value) ==
  LET code == reduceNumberFromTo(value, 64) IN
  CASE code = 0 -> 0
    [] code = 1 -> 1
    [] code = 2 -> 2
    [] code = 4 -> 3
    [] code = 8 -> 4
    [] code = 16 -> 5
    [] code = 32 -> 6
    [] OTHER -> 0

shifterGear(value) ==
  LET code == reduceNumberFromTo(value, 64) IN
  CASE code = 0 -> 0
    [] code = 1 -> 1
    [] code = 2 -> 2
    [] code = 4 -> 3
    [] code = 8 -> 4
    [] code = 16 -> 5
    [] code = 32 -> 6
    [] code = 64 -> -1
    [] OTHER -> 0

\* Math.round(num * 100) where num = p / q exactly (q > 0): round half up
RoundHundredths(p, q) == (2 * 100 * p + q) \div (2 * q)

\* The byte pairs <<data[4], data[5]>> whose exact value times 100 is a tie
\* k + 0.5 but whose IEEE-754 double product falls just below the tie
\* (5437.499999999999, 6062.499999999999, 3187.4999999999995), so that
\* Math.round rounds down.
FloatTieBelow == { <<51, 139>>, <<51, 155>>, <<153, 81>> }

\* mutant of wheelTurn: the coarse and the fine byte are exchanged
wheelTurn_Exchanged(data) ==
  LET exact == RoundHundredths(100 * At(data, 5) + 25500 * At(data, 4), 255 * 256)
      lower == IF exact > 0 THEN exact ELSE 0
  IN IF lower < 10000 THEN lower ELSE 10000

\* round(wheelCourse + wheelFine, 2), clamped to 0..100, in hundredths:
\* wheelFine + wheelCourse = (100 * data[4] + 25500 * data[5]) / (255 * 256)
wheelTurn(data) ==
  LET exact == RoundHundredths(100 * At(data, 4) + 25500 * At(data, 5), 255 * 256)
      rounded == IF <<At(data, 4), At(data, 5)>> \in FloatTieBelow
                   THEN exact - 1 ELSE exact
      lower == IF rounded > 0 THEN rounded ELSE 0
  IN IF lower < 10000 THEN lower ELSE 10000

\* mutant of pedalToPercent: the quotient is truncated, not rounded
pedalToPercent_Truncated(num) ==
  (100 * (IF num - 255 >= 0 THEN num - 255 ELSE 255 - num)) \div 255

\* round(Math.abs(num - 255) / 255, 2) in hundredths
pedalToPercent(num) ==
  RoundHundredths(IF num - 255 >= 0 THEN num - 255 ELSE 255 - num, 255)

spinnerOf(value3) ==
  IF BitTest(value3, 2) = 1 THEN 1
  ELSE IF BitTest(value3, 4) = 1 THEN -1
  ELSE 0

(***************************************************************************)
(* updateState: the pairs handed to compareState for one byte index, in    *)
(* the order of the object literal.                                        *)
(***************************************************************************)
Pairs(index, data) ==
  CASE index = 0 ->
         << <<"wheel-dpad", wheelDpad(At(data, 0))>>,
            <<"wheel-button_x", BitTest(At(data, 0), 16)>>,
            <<"wheel-button_square", BitTest(At(data, 0), 32)>>,
            <<"wheel-button_circle", BitTest(At(data, 0), 64)>>,
            <<"wheel-button_triangle", BitTest(At(data, 0), 128)>> >>
    [] index = 1 ->
         << <<"wheel-shift_right", BitTest(At(data, 1), 1)>>,
            <<"wheel-shift_left", BitTest(At(data, 1), 2)>>,
            <<"wheel-button_r2", BitTest(At(data, 1), 4)>>,
            <<"wheel-button_l2", BitTest(At(data, 1), 8)>>,
            <<"wheel-button_share", BitTest(At(data, 1), 16)>>,
            <<"wheel-button_option", BitTest(At(data, 1), 32)>>,
            <<"wheel-button_r3", BitTest(At(data, 1), 64)>>,
            <<"wheel-button_l3", BitTest(At(data, 1), 128)>> >>
    [] index = 2 ->
         << <<"shifter-gear", shifterGear(At(data, 2))>>,
            <<"wheel-button_plus", BitTest(At(data, 2), 128)>> >>
    [] index = 3 ->
         << <<"wheel-spinner", spinnerOf(At(data, 3))>>,
            <<"wheel-button_minus", BitTest(At(data, 3), 1)>>,
            <<"wheel-button_spinner", BitTest(At(data, 3), 8)>>,
            <<"wheel-button_playstation", BitTest(At(data, 3), 16)>> >>
    [] index \in {4, 5} ->
         << <<"wheel-turn", wheelTurn(data)>> >>
    [] index = 6 ->
         << <<"pedals-gas", pedalToPercent(At(data, 6))>> >>
    [] index = 7 ->
         << <<"pedals-brake", pedalToPercent(At(data, 7))>> >>
    [] index = 8 ->
         << <<"pedals-clutch", pedalToPercent(At(data, 8))>> >>
    [] index = 11 ->
         << <<"shifter-gear", shifterGear(At(data, 2))>> >>
    [] OTHER -> << >>

\* mutant of Differs: the comparison is dropped, every pair is recorded
Differs_Always(state, key, value) == TRUE

\* state[key] !== value, where a key never assigned reads as undefined
Differs(state, key, value) == key \notin DOMAIN state \/ state[key] # value

\* obj[key] = value on a JavaScript object
Assign(obj, key, value) == (key :> value) @@ obj

\* compareState on sc = [state, changes]; changes keeps the insertion order
\* of its keys as a sequence of <<key, value>>.  (In both loops the test on
\* Len(sc.changes) is constant; it only makes sc a value before the next
\* iteration is entered.)
RECURSIVE compareLoop(_, _, _)
compareLoop(sc, pairs, n) ==
  IF n > Len(pairs) \/ Len(sc.changes) < 0
    THEN sc
    ELSE LET key == pairs[n][1]
             value == pairs[n][2]
         IN compareLoop(
              IF Differs(sc.state, key, value)
                THEN [state |-> Assign(sc.state, key, value),
                      changes |-> Append(sc.changes, <<key, value>>)]
                ELSE sc,
              pairs, n + 1)

compareState(sc, pairs) == compareLoop(sc, pairs, 1)

\* mutant of IndexChanged: === written for !==
IndexChanged_Inverted(data, lastData, index) ==
  At(data, index) = At(lastData, index)

\* data[index] !== lastData[index]
IndexChanged(data, lastData, index) == At(data, index) # At(lastData, index)

RECURSIVE updateLoop(_, _, _, _)
updateLoop(data, lastData, sc, index) ==
  IF index < Len(data) /\ Len(sc.changes) >= 0
    THEN updateLoop(data, lastData,
                    IF IndexChanged(data, lastData, index)
                      THEN compareState(sc, Pairs(index, data))
                      ELSE sc,
                    index + 1)
    ELSE sc

\* returns [state |-> the store after the call, changes |-> the returned object]
updateState(data, lastData, state) ==
  updateLoop(data, lastData, [state |-> state, changes |-> << >>], 0)


(***************************************************************************)
(* Control encoders of the LogitechG29 class.  A frame is a sequence of    *)
(* bytes; an encoder returns the frames it hands to relayOS, in order.     *)
(***************************************************************************)
\* Math.round(p / q) for p >= 0, q > 0
Round(p, q) == (2 * p + q) \div (2 * q)

\* relayOS: data.unshift(0x00) when prependWrite is set
relayOS(prependWrite, data) == IF prependWrite THEN <<0>> \o data ELSE data

\* relay: this.device?.write(data); w is the list of frames written so far
relay(device, w, data) == IF device = "none" THEN w ELSE Append(w, data)

\* forceOff(slot): 0xf3 for slot 0, parseInt("0x" + slot + "0") otherwise
forceOff(slot) ==
  << <<(IF slot = 0 THEN 243 ELSE 16 * slot), 0, 0, 0, 0, 0, 0>> >>

\* mutant of forceConstant: the neutral level is encoded like any other
forceConstant_NoNeutral(number) ==
  LET exact == Round(255 * (IF number >= 100 THEN number - 100
                                              ELSE 100 - number), 100)
  IN << <<17, 0, (IF number = 90 THEN exact - 1 ELSE exact), 0, 0, 0, 0>> >>

\* forceConstant(number), number given in hundredths (50 is 0.5) and between
\* 0 and 1.  Math.abs(0.9 - 1) * 255 is the double 25.499999999999993, just
\* below the tie 25.5 of the exact value, so that Math.round rounds down.
forceConstant(number) ==
  IF number = 50
    THEN forceOff(1)
    ELSE LET exact == Round(255 * (IF number >= 100 THEN number - 100
                                                     ELSE 100 - number), 100)
         IN << <<17, 0, (IF number = 90 THEN exact - 1 ELSE exact),
                 0, 0, 0, 0>> >>

\* forceFriction(number), number given in hundredths
forceFriction(number) ==
  IF number = 0
    THEN forceOff(2)
    ELSE LET n == Round(number * 7, 100)
         IN << <<33, 2, n, 0, n, 0, 0>> >>

\* setRange: low and high byte of options.range
setRange(range) ==
  << <<248, 129, range % 256, (range \div 256) % 256, 0, 0, 0>> >>

\* The autocenter option: off (false), on (true) or a custom two-element
\* array [strength, rate], whose elements are kept in hundredths.
AutocenterOff == [on |-> FALSE, custom |-> FALSE, strength |-> 0, rate |-> 0]
AutocenterOn == [on |-> TRUE, custom |-> FALSE, strength |-> 0, rate |-> 0]
AutocenterCustom(s, r) == [on |-> TRUE, custom |-> TRUE, strength |-> s, rate |-> r]

\* mutant of autoCenter: the rate is written into the second strength position
autoCenter_RateTwice(autocenter) ==
  IF autocenter.on
    THEN IF autocenter.custom
           THEN LET s == Round(autocenter.strength * 15, 100)
                    r == Round(autocenter.rate * 255, 100)
                IN [frames |-> << <<20, 0, 0, 0, 0, 0, 0>>,
                                  <<254, 13, s, r, r, 0, 0, 0>> >>,
                    autocenter |-> AutocenterCustom(100 * s, 100 * r)]
           ELSE [frames |-> << <<20, 0, 0, 0, 0, 0, 0>>,
                               <<254, 13, 7, 7, 255, 0, 0, 0>> >>,
                 autocenter |-> autocenter]
    ELSE [frames |-> << <<245, 0, 0, 0, 0, 0, 0>> >>,
          autocenter |-> autocenter]

\* autoCenter: [frames |-> the frames relayed, autocenter |-> the option after
\* the call]; the custom branch overwrites the array's elements in place.
autoCenter(autocenter) ==
  IF autocenter.on
    THEN IF autocenter.custom
           THEN LET s == Round(autocenter.strength * 15, 100)
                    r == Round(autocenter.rate * 255, 100)
                IN [frames |-> << <<20, 0, 0, 0, 0, 0, 0>>,
                                  <<254, 13, s, s, r, 0, 0, 0>> >>,
                    autocenter |-> AutocenterCustom(100 * s, 100 * r)]
           ELSE [frames |-> << <<20, 0, 0, 0, 0, 0, 0>>,
                               <<254, 13, 7, 7, 255, 0, 0, 0>> >>,
                 autocenter |-> autocenter]
    ELSE [frames |-> << <<245, 0, 0, 0, 0, 0, 0>> >>,
          autocenter |-> autocenter]

\* leds(value): [frames, lastLedValue] after the call
leds(lastLed, value) ==
  IF lastLed = value
    THEN [frames |-> << >>, lastLedValue |-> lastLed]
    ELSE LET v == IF value < 0 THEN 0 ELSE IF value > 31 THEN 31 ELSE value
         IN [frames |-> << <<248, 18, v, 0, 0, 0, 1>> >>, lastLedValue |-> v]

\* ledsSimple(value): the mask handed to leds
ledsSimple(value) ==
  IF value >= 5 THEN 31
  ELSE IF value >= 4 THEN 15
  ELSE IF value >= 3 THEN 7
  ELSE IF value >= 2 THEN 3
  ELSE IF value >= 1 THEN 1
  ELSE 0

\* the two frames of the calibration sequence written by connect
CalibrationFrames ==
  << <<248, 10, 0, 0, 0, 0, 0>>, <<248, 9, 5, 1, 1, 0, 0>> >>

\* mutant of NeedsCalibration: the calibration is run on every connect
NeedsCalibration_Always(length) == TRUE

\* connect's test of the first report: data.length === 12 means the wheel is
\* already in high precision mode
NeedsCalibration(length) == length # 12

\* write every frame of fs through relayOS and relay
RECURSIVE relayAll(_, _, _, _)
relayAll(device, prependWrite, w, fs) ==
  IF fs = << >>
    THEN w
    ELSE relayAll(device, prependWrite,
                  relay(device, w, relayOS(prependWrite, Head(fs))), Tail(fs))

(***************************************************************************)
(* The 'data' handler's dispatch (listen): the events emitted for one      *)
(* report, in order.  An event is [channel, payload].                      *)
(***************************************************************************)
\* JSON.parse(JSON.stringify(state)): a new object with the keys that are set
JSONClone(state) == [k \in DOMAIN state |-> state[k]]

Event(channel, payload) == [channel |-> channel, payload |-> payload]

\* mutant of DispatchEvents: every per-field event carries the first change's
\* value
DispatchEvents_FirstValue(changes, state, data) ==
  (IF Len(changes) > 0
     THEN [n \in 1..Len(changes) |-> Event(changes[n][1], changes[1][2])]
          \o << Event("changes", changes) >>
     ELSE << >>)
  \o << Event("all", JSONClone(state)), Event("data", data) >>

\* mutant of DispatchEvents: the test on the number of changes is dropped
DispatchEvents_NoGuard(changes, state, data) ==
  [n \in 1..Len(changes) |-> Event(changes[n][1], changes[n][2])]
  \o << Event("changes", changes),
        Event("all", JSONClone(state)), Event("data", data) >>

DispatchEvents(changes, state, data) ==
  (IF Len(changes) > 0
     THEN [n \in 1..Len(changes) |-> Event(changes[n][1], changes[n][2])]
          \o << Event("changes", changes) >>
     ELSE << >>)
  \o << Event("all", JSONClone(state)), Event("data", data) >>


(***************************************************************************)
(* Inputs.                                                                 *)
(***************************************************************************)
\* Sample 12-byte reports; the transport delivers the first NumReports.
AllReports ==
  << <<0, 0, 0, 0, 0, 0, 0, 0, 0, 0, 0, 0>>,
     <<0, 0, 0, 0, 0, 0, 128, 255, 255, 0, 0, 0>>,
     <<8, 0, 0, 0, 0, 128, 255, 255, 255, 0, 0, 0>>,
     <<24, 1, 130, 2, 51, 139, 255, 255, 255, 10, 20, 1>>,
     <<86, 0, 64, 4, 0, 128, 0, 255, 255, 0, 0, 0>>,
     <<8, 0, 0, 0, 0, 128, 255, 255, 255, 0, 0, 1>>,
     <<0, 128, 32, 25, 255, 255, 255, 0, 128, 0, 0, 0>>,
     <<8, 0, 0, 0, 0, 128, 255, 255, 255, 7, 7, 0>> >>

Reports ==
  { AllReports[i] : i \in 1..(IF NumReports < Len(AllReports)
                                THEN NumReports ELSE Len(AllReports)) }

ZeroReport == [i \in 1..12 |-> 0]

\* lengths of the first report read by connect
ReadLengths == {12, 13}

\* constructor arguments and platform: [autocenter, range, win32]; the custom
\* profile is [0.5, 0.5]
Constructions ==
  { [autocenter |-> AutocenterOff, range |-> 5, win32 |-> FALSE],
    [autocenter |-> AutocenterOn, range |-> 2000, win32 |-> TRUE],
    [autocenter |-> AutocenterCustom(50, 50), range |-> 270, win32 |-> TRUE] }

\* mutant of constructorRange: the upper limit is not applied
constructorRange_NoUpper(range) ==
  IF range > 40 THEN range ELSE 40

\* constructor: range: Math.min(Math.max(options.range, 40), 900)
constructorRange(range) ==
  LET lower == IF range > 40 THEN range ELSE 40
  IN IF lower < 900 THEN lower ELSE 900

\* arguments of the control methods called by the application: LED masks
\* (40 is above the mask's range), LED levels, force and friction levels in
\* hundredths, effect slots
LedValues == {0, 7, 40}
LedLevels == {3, 5}
ForceLevels == {0, 25, 50, 90, 100}
Slots == {0, 1, 2, 4}

\* cap on the number of autoCenter() calls of one instance, by listen() or by
\* the application (every call with a custom autocenter profile rescales the
\* profile)
MaxCenterings == 2

\* cap on the number of handles that are open without being this.device:
\* connect() on an instance whose device is open leaves the earlier handle
\* open, and nothing closes it afterwards
MaxOrphans == 1

(***************************************************************************)
(* State.                                                                  *)
(***************************************************************************)
VARIABLES
  options,       \* this.options: [autocenter, range]
  prependWrite,  \* this.prependWrite
  device,        \* this.device: "none" (undefined), "open" or "closed"
  readPending,   \* the device.read callback of the latest connect: "none",
                 \* "pending", or "broken" (its device was closed before it
                 \* fired)
  listeners,     \* number of listen() calls that put their 'data' and
                 \* 'error' listeners on this.device
  orphans,       \* the handles of earlier connect() calls that are open and
                 \* are no longer this.device, oldest first: [listeners, read]
                 \* (read: its device.read callback has not fired yet)
  timers,        \* pending setTimeout callbacks of connect, oldest first:
                 \* [closed, own] (closed: the device was closed by
                 \* disconnect while the timer was pending; own: set by the
                 \* read callback of the latest connect() call)
  userClosed,    \* disconnect was called and connect has not been called since
  centerings,    \* number of autoCenter() calls so far
  calibrations,  \* calibration sequences written by the read callback of the
                 \* latest connect() call
  state,         \* this.state
  lastData,      \* this.lastData
  lastLedValue,  \* this.lastLedValue
  ledRequested,  \* the argument of the latest leds(value) call that returned,
                 \* as a one-element sequence; empty before the first call
  errorSubscribed, \* the subscription of the application to 'error': "no",
                 \* "on" (made by on) or "once" (made by once, not used yet)
  exited,        \* an exception left a callback uncaught and ended the process
  written,       \* frames handed to device.write by the last step
  emitted,       \* events emitted on eventEmitter by the last step
  last,          \* the last step: its operation and, for a report, the
                 \* report, the store and lastData before it, and the changes
  probe,         \* the last application of a decoder or encoder on its own:
                 \* [fn, index, arg, out, applied]
  promise        \* the promise returned by the latest connect() call that
                 \* opened a device: "none" before the first call, "pending",
                 \* "resolved" or "rejected"

vars == << options, prependWrite, device, readPending, listeners, orphans,
           timers, userClosed, centerings, calibrations, state, lastData,
           lastLedValue, ledRequested, errorSubscribed, exited, written,
           emitted, last, probe, promise >>

\* the listeners of listen are on this.device
listening == listeners > 0

\* Every action of the instance has the guard ~exited: a process that has
\* exited runs no callback and no method.

\* a decoder or encoder fn waiting to be applied to arg
Request(fn, index, arg) ==
  [fn |-> fn, index |-> index, arg |-> arg, out |-> << >>, applied |-> FALSE]

NoProbe == Request("none", 0, << >>)

\* handle: the handle whose read callback the step is, 0 for this.device and
\* n for orphans[n]; runs: the number of listener invocations of the step
Step(op) ==
  [op |-> op, data |-> << >>, preState |-> EmptyObject, preLast |-> << >>,
   changes |-> << >>, cancelled |-> FALSE, length |-> 0, value |-> 0,
   thrown |-> FALSE, pending |-> << >>, running |-> FALSE, handle |-> 0,
   runs |-> 0]

\* the instance built by new LogitechG29(c) on the platform c.win32
Constructor(c) ==
  /\ options = [autocenter |-> c.autocenter,
                range |-> constructorRange(c.range)]
  /\ prependWrite = c.win32
  /\ device = "none"
  /\ readPending = "none"
  /\ listeners = 0
  /\ orphans = << >>
  /\ timers = << >>
  /\ userClosed = FALSE
  /\ centerings = 0
  /\ calibrations = 0
  /\ state = EmptyObject
  /\ lastData = ZeroReport
  /\ lastLedValue = 0
  /\ ledRequested = << >>
  /\ errorSubscribed = "no"
  /\ exited = FALSE
  /\ written = << >>
  /\ emitted = << >>
  /\ last = Step("init")
  /\ promise = "none"

Constructed == \E c \in Constructions : Constructor(c)

Init == Constructed /\ probe = NoProbe

\* the instance of the shipped program:
\* new LogitechG29({ autocenter: false, debug: true, range: 900 })
Shipped == [autocenter |-> AutocenterOff, range |-> 900, win32 |-> FALSE]

ShippedInit == Constructor(Shipped) /\ probe = NoProbe

(***************************************************************************)
(* The handles.  Handle 0 is this.device and handle n is orphans[n].       *)
(***************************************************************************)
Handles == 0..Len(orphans)

ReadOf(h) ==
  IF h = 0 THEN readPending
  ELSE IF orphans[h].read THEN "pending" ELSE "none"

ListenersOf(h) == IF h = 0 THEN listeners ELSE orphans[h].listeners

\* the transport delivers 'data' and 'error' events of handle h to listeners
Delivers(h) ==
  IF h = 0 THEN device = "open" /\ listeners > 0
  ELSE orphans[h].listeners > 0

RemoveAt(seq, n) == SubSeq(seq, 1, n - 1) \o SubSeq(seq, n + 1, Len(seq))

\* the read callback of handle h has fired; an orphan without listeners and
\* without a pending callback takes no further part
ReadDone(h) ==
  /\ readPending' = IF h = 0 THEN "none" ELSE readPending
  /\ orphans' = IF h = 0 THEN orphans
                ELSE IF orphans[h].listeners = 0 THEN RemoveAt(orphans, h)
                ELSE [orphans EXCEPT ![h].read = FALSE]

(***************************************************************************)
(* device.write.  relay is this.device?.write(data): nothing is written    *)
(* while this.device is undefined, the write raises on a handle that was   *)
(* closed, and on an open handle the transport either accepts the frame or *)
(* raises.  An exception ends the method at that statement.  Fails is the  *)
(* set of outcomes of relaying fs in order: 0 when every write returns, k  *)
(* when the k-th write raises.                                             *)
(***************************************************************************)
Fails(dev, fs) ==
  CASE dev = "none" -> {0}
    [] dev = "closed" -> IF fs = << >> THEN {0} ELSE {1}
    [] OTHER -> 0..Len(fs)

\* the frames of fs that the transport accepted
Accepted(fs, fail) == IF fail = 0 THEN fs ELSE SubSeq(fs, 1, fail - 1)

\* a promise is settled once
Settle(p, outcome) == IF p = "pending" THEN outcome ELSE p

(***************************************************************************)
(* listen(ready), after the device has been (re)opened: setRange,          *)
(* autoCenter, the listeners, leds(0), emit 'ready'.  dev is this.device   *)
(* at that point, base the number of listener pairs on it, pre the frames  *)
(* the caller wrote before the call and fail the write that raises.        *)
(* autoCenter writes its first frame, then writes the profile back into    *)
(* the options, then writes its second frame.                              *)
(***************************************************************************)
ListenFrames ==
  setRange(options.range) \o autoCenter(options.autocenter).frames
                          \o leds(lastLedValue, 0).frames

ListenBody(pre, dev, base, fail) ==
  LET ac == autoCenter(options.autocenter)
      ld == leds(lastLedValue, 0)
      centred == fail = 0 \/ fail > 1
      rescaled == fail = 0 \/ fail > 2
      attached == dev # "none" /\ (fail = 0 \/ fail > 1 + Len(ac.frames))
  IN /\ written' = relayAll(dev, prependWrite, pre,
                            Accepted(ListenFrames, fail))
     /\ options' = IF rescaled
                   THEN [options EXCEPT !.autocenter = ac.autocenter]
                   ELSE options
     /\ lastLedValue' = IF fail = 0 THEN ld.lastLedValue ELSE lastLedValue
     /\ ledRequested' = IF fail = 0 THEN << 0 >> ELSE ledRequested
     /\ probe' = probe
     /\ listeners' = IF attached THEN base + 1 ELSE base
     /\ centerings' = IF centred THEN centerings + 1 ELSE centerings
     /\ emitted' = IF fail = 0 THEN << Event("ready", 0) >> ELSE << >>

(***************************************************************************)
(* connect(): open the device, start the first read, forceConstant(1).     *)
(* connect does not look at this.device.  When it is called while          *)
(* this.device is open and the transport grants a second open, the earlier *)
(* handle stays open with its listeners and its pending read callback.     *)
(* An exception of forceConstant's write is thrown in the executor of the  *)
(* promise, which rejects it; the read has been started by then.           *)
(***************************************************************************)
Orphaning == device = "open" /\ (listeners > 0 \/ readPending = "pending")

Connect ==
  /\ ~exited
  /\ Orphaning => Len(orphans) < MaxOrphans
  /\ device' = "open"
  /\ listeners' = 0
  /\ readPending' = "pending"
  /\ orphans' = IF Orphaning
                THEN Append(orphans, [listeners |-> listeners,
                                      read |-> readPending = "pending"])
                ELSE orphans
  /\ timers' = [n \in 1..Len(timers) |-> [timers[n] EXCEPT !.own = FALSE]]
  /\ userClosed' = FALSE
  /\ calibrations' = 0
  /\ \E fail \in Fails("open", forceConstant(100)) :
       /\ written' = relayAll("open", prependWrite, << >>,
                              Accepted(forceConstant(100), fail))
       /\ promise' = IF fail = 0 THEN "pending" ELSE "rejected"
       /\ last' = [Step("connect") EXCEPT !.thrown = fail > 0]
  /\ emitted' = << >>
  /\ UNCHANGED << options, prependWrite, centerings, state, lastData,
                  lastLedValue, ledRequested, errorSubscribed, exited,
                  probe >>

\* getWheelDevicePath throws DEVICE_NOT_FOUND, or new hid.HID throws because
\* the transport refuses the open: the promise of this call is rejected
ConnectNotFound ==
  /\ ~exited
  /\ written' = << >>
  /\ emitted' = << >>
  /\ last' = Step("connectNotFound")
  /\ UNCHANGED << options, prependWrite, device, readPending, listeners,
                  orphans, timers, userClosed, centerings, calibrations,
                  state, lastData, lastLedValue, ledRequested,
                  errorSubscribed, exited, probe, promise >>

\* the read callback of handle h fires with err: reject(err)
ReadError(h) ==
  /\ ~exited
  /\ ReadOf(h) \in {"pending", "broken"}
  /\ ReadDone(h)
  /\ written' = << >>
  /\ emitted' = << >>
  /\ promise' = IF h = 0 THEN Settle(promise, "rejected") ELSE promise
  /\ last' = [Step("readError") EXCEPT !.handle = h]
  /\ UNCHANGED << options, prependWrite, device, listeners, timers,
                  userClosed, centerings, calibrations, state, lastData,
                  lastLedValue, ledRequested, errorSubscribed, exited,
                  probe >>

\* the read callback of handle h fires with a report of 12 bytes: forceOff,
\* listen(true) on this.device, resolve().  An exception of a write of listen
\* leaves the callback before resolve(), and either ends the process or is
\* caught by the embedding program.
ReadReady(h, length) ==
  /\ ~exited
  /\ ReadOf(h) = "pending"
  /\ device = "open"
  /\ ~NeedsCalibration(length)
  /\ centerings < MaxCenterings
  /\ ReadDone(h)
  /\ \E fail \in Fails("open", ListenFrames) :
       /\ ListenBody(relayAll("open", prependWrite, << >>, forceOff(0)),
                     "open", listeners, fail)
       /\ promise' = IF h = 0 /\ fail = 0 THEN Settle(promise, "resolved")
                     ELSE promise
       /\ \E ends \in (IF fail = 0 THEN {FALSE} ELSE BOOLEAN) : exited' = ends
       /\ last' = [Step("readReady") EXCEPT !.length = length, !.handle = h,
                                            !.thrown = fail > 0]
  /\ UNCHANGED << prependWrite, device, timers, userClosed, calibrations,
                  state, lastData, errorSubscribed >>

\* the read callback of handle h fires with a report of another length:
\* forceOff, then in a try block the calibration sequence and the settle
\* timer.  An exception of a write of the calibration sequence is caught:
\* reject(err), no timer.
ReadCalibrate(h, length) ==
  /\ ~exited
  /\ ReadOf(h) = "pending"
  /\ device = "open"
  /\ NeedsCalibration(length)
  /\ ReadDone(h)
  /\ \E fail \in Fails("open", CalibrationFrames) :
       /\ fail = 0 => Len(timers) < MaxTimers
       /\ written' = relayAll("open", prependWrite, << >>,
                              forceOff(0) \o Accepted(CalibrationFrames, fail))
       /\ calibrations' = IF h = 0 /\ fail = 0 THEN calibrations + 1
                          ELSE calibrations
       /\ timers' = IF fail = 0
                    THEN Append(timers, [closed |-> FALSE, own |-> h = 0])
                    ELSE timers
       /\ promise' = IF h = 0 /\ fail > 0 THEN Settle(promise, "rejected")
                     ELSE promise
       /\ last' = [Step("readCalibrate") EXCEPT
                     !.length = length, !.handle = h, !.thrown = fail > 0]
  /\ emitted' = << >>
  /\ UNCHANGED << options, prependWrite, device, listeners, userClosed,
                  centerings, state, lastData, lastLedValue, ledRequested,
                  errorSubscribed, probe, exited >>

\* the read callback of handle h fires with a report and the write of
\* forceOff, which is outside the try block, raises: this.device was closed
\* (the callback of an orphaned handle), or the transport raises on the open
\* handle.  The exception leaves the callback, the promise is not settled,
\* and the exception either ends the process or is caught by the embedding
\* program.
ReadThrows(h) ==
  /\ ~exited
  /\ ReadOf(h) = "pending"
  /\ device # "none"
  /\ ReadDone(h)
  /\ written' = << >>
  /\ emitted' = << >>
  /\ \E ends \in BOOLEAN : exited' = ends
  /\ last' = [Step("readThrows") EXCEPT !.thrown = TRUE, !.handle = h]
  /\ UNCHANGED << options, prependWrite, device, listeners, timers,
                  userClosed, centerings, calibrations, state, lastData,
                  lastLedValue, ledRequested, errorSubscribed, probe,
                  promise >>

\* disconnect(): this.device?.close()
Disconnect ==
  /\ ~exited
  /\ device # "none"
  /\ device' = "closed"
  /\ listeners' = 0
  /\ readPending' = IF readPending = "pending" THEN "broken" ELSE readPending
  /\ timers' = [n \in 1..Len(timers) |-> [timers[n] EXCEPT !.closed = TRUE]]
  /\ userClosed' = TRUE
  /\ written' = << >>
  /\ emitted' = << >>
  /\ last' = Step("disconnect")
  /\ UNCHANGED << options, prependWrite, orphans, centerings, calibrations,
                  state, lastData, lastLedValue, ledRequested,
                  errorSubscribed, exited, probe, promise >>

\* the oldest pending timer was set by the read callback of the latest
\* connect() call
OwnTimer == Head(timers).own

\* the settle timer fires: listen(false) closes the device, opens it again
\* and starts listening; resolve().  An exception of a write of listen leaves
\* the timer callback before resolve().
TimerListen ==
  /\ ~exited
  /\ timers # << >>
  /\ centerings < MaxCenterings
  /\ timers' = Tail(timers)
  /\ device' = "open"
  /\ readPending' = IF readPending = "pending" THEN "broken" ELSE readPending
  /\ \E fail \in Fails("open", ListenFrames) :
       /\ ListenBody(<< >>, "open", 0, fail)
       /\ promise' = IF OwnTimer /\ fail = 0 THEN Settle(promise, "resolved")
                     ELSE promise
       /\ \E ends \in (IF fail = 0 THEN {FALSE} ELSE BOOLEAN) : exited' = ends
       /\ last' = [Step("timer") EXCEPT !.cancelled = Head(timers).closed,
                                        !.thrown = fail > 0]
  /\ UNCHANGED << prependWrite, orphans, userClosed, calibrations, state,
                  lastData, errorSubscribed >>

\* the settle timer fires and getWheelDevicePath or new hid.HID throws in
\* listen(false), after the close: the exception leaves the timer callback,
\* which either ends the process or is caught by the embedding program
TimerNotFound ==
  /\ ~exited
  /\ timers # << >>
  /\ timers' = Tail(timers)
  /\ device' = "closed"
  /\ listeners' = 0
  /\ readPending' = IF readPending = "pending" THEN "broken" ELSE readPending
  /\ written' = << >>
  /\ emitted' = << >>
  /\ \E ends \in BOOLEAN : exited' = ends
  /\ last' = [Step("timerNotFound") EXCEPT !.cancelled = Head(timers).closed,
                                           !.thrown = TRUE]
  /\ UNCHANGED << options, prependWrite, orphans, userClosed, centerings,
                  calibrations, state, lastData, lastLedValue, ledRequested,
                  errorSubscribed, probe, promise >>

(***************************************************************************)
(* listen(ready) called by the application.  listen(true) works on         *)
(* this.device as it is: undefined (every device call is skipped, 'ready'  *)
(* is emitted), open (one more pair of listeners) or closed (the first     *)
(* write raises).  listen(false) closes this.device and opens a new        *)
(* handle, without connect's read, calibration or promise.  An exception   *)
(* goes to the caller.                                                     *)
(***************************************************************************)
Listen(ready) ==
  /\ ~exited
  /\ centerings < MaxCenterings
  /\ LET dev == IF ready THEN device ELSE "open"
     IN /\ device' = dev
        /\ readPending' = IF ~ready /\ readPending = "pending" THEN "broken"
                          ELSE readPending
        /\ \E fail \in Fails(dev, ListenFrames) :
             /\ ListenBody(<< >>, dev, IF ready THEN listeners ELSE 0, fail)
             /\ last' = [Step(IF ready THEN "listen(true)"
                                       ELSE "listen(false)")
                           EXCEPT !.thrown = fail > 0]
  /\ UNCHANGED << prependWrite, orphans, timers, userClosed, calibrations,
                  state, lastData, errorSubscribed, exited, promise >>

\* listen(false) called by the application, and getWheelDevicePath or
\* new hid.HID throws after the close
ListenNotFound ==
  /\ ~exited
  /\ device' = IF device = "none" THEN "none" ELSE "closed"
  /\ listeners' = 0
  /\ readPending' = IF readPending = "pending" THEN "broken" ELSE readPending
  /\ written' = << >>
  /\ emitted' = << >>
  /\ last' = [Step("listenNotFound") EXCEPT !.thrown = TRUE]
  /\ UNCHANGED << options, prependWrite, orphans, timers, userClosed,
                  centerings, calibrations, state, lastData, lastLedValue,
                  ledRequested, errorSubscribed, exited, probe, promise >>

\* on('error', callback)
OnError ==
  /\ ~exited
  /\ errorSubscribed # "on"
  /\ errorSubscribed' = "on"
  /\ written' = << >>
  /\ emitted' = << >>
  /\ last' = Step("on")
  /\ UNCHANGED << options, prependWrite, device, readPending, listeners,
                  orphans, timers, userClosed, centerings, calibrations,
                  state, lastData, lastLedValue, ledRequested, exited, probe,
                  promise >>

\* once('error', callback): the subscription ends with the first 'error'
\* event that is delivered to it
OnceError ==
  /\ ~exited
  /\ errorSubscribed = "no"
  /\ errorSubscribed' = "once"
  /\ written' = << >>
  /\ emitted' = << >>
  /\ last' = Step("once")
  /\ UNCHANGED << options, prependWrite, device, readPending, listeners,
                  orphans, timers, userClosed, centerings, calibrations,
                  state, lastData, lastLedValue, ledRequested, exited, probe,
                  promise >>

\* the 'data' listener of listen run count times in a row on one report, as
\* the transport does for a handle that carries count listeners
RECURSIVE HandlerRuns(_, _, _, _)
HandlerRuns(data, previous, store, count) ==
  IF count = 0 THEN [state |-> store, lastData |-> previous, emitted |-> << >>]
  ELSE LET r == updateState(data, previous, store)
           rest == HandlerRuns(data, data, r.state, count - 1)
       IN [state |-> rest.state, lastData |-> rest.lastData,
           emitted |-> DispatchEvents(r.changes, r.state, data) \o rest.emitted]

\* one report delivered by handle h: every 'data' listener on the handle
\* processes it to completion
Data(h, data) ==
  /\ ~exited
  /\ Delivers(h)
  /\ LET r == updateState(data, lastData, state)
         all == HandlerRuns(data, lastData, state, ListenersOf(h))
     IN /\ state' = all.state
        /\ lastData' = all.lastData
        /\ emitted' = all.emitted
        /\ last' = [Step("data") EXCEPT !.data = data, !.preState = state,
                                        !.preLast = lastData,
                                        !.changes = r.changes,
                                        !.runs = ListenersOf(h)]
  /\ written' = << >>
  /\ UNCHANGED << options, prependWrite, device, readPending, listeners,
                  orphans, timers, userClosed, centerings, calibrations,
                  lastLedValue, ledRequested, errorSubscribed, exited, probe,
                  promise >>

\* the number of 'error' listeners of a handle with count listeners that emit
\* before an emit throws: all of them with a subscription made by on, one
\* with a subscription made by once (which that emit ends), none without a
\* subscription
ErrorEmits(count) ==
  CASE errorSubscribed = "on" -> count
    [] errorSubscribed = "once" -> 1
    [] OTHER -> 0

\* the 'error' listeners of listen on handle h: the transport's error is
\* emitted on the 'error' channel (the error object is not inspected; its
\* payload is 0 here).  Without a subscriber on 'error' the emit throws and
\* the exception leaves the listener, which either ends the process or is
\* caught by the embedding program; the listeners after it are not run.
DeviceError(h) ==
  LET emits == ErrorEmits(ListenersOf(h))
      thrown == emits < ListenersOf(h)
  IN /\ ~exited
     /\ Delivers(h)
     /\ \E ends \in (IF thrown THEN BOOLEAN ELSE {FALSE}) : exited' = ends
     /\ emitted' = [n \in 1..emits |-> Event("error", 0)]
     /\ errorSubscribed' = IF errorSubscribed = "once" THEN "no"
                           ELSE errorSubscribed
     /\ written' = << >>
     /\ last' = [Step("error") EXCEPT
                   !.preState = state, !.preLast = lastData,
                   !.thrown = thrown,
                   !.runs = IF thrown THEN emits + 1 ELSE emits]
     /\ UNCHANGED << options, prependWrite, device, readPending, listeners,
                     orphans, timers, userClosed, centerings, calibrations,
                     state, lastData, lastLedValue, ledRequested, probe,
                     promise >>

(***************************************************************************)
(* The connection life cycle: connect and disconnect called by the         *)
(* application, and the callbacks of the read and of the settle timer,     *)
(* with every outcome of the transport.  The life cycle reads and writes   *)
(* neither the store nor the previous report, and the listeners read and   *)
(* write nothing of the life cycle, so the life cycle is explored with one *)
(* report (which shows whether reports are processed) and the report       *)
(* pipeline with many reports in a specification of its own, SpecReports.  *)
(* The other methods called by the application are explored in             *)
(* SpecControl.                                                            *)
(***************************************************************************)
LifeReports == { AllReports[2] }

Next ==
  \/ Connect
  \/ ConnectNotFound
  \/ \E h \in Handles : ReadError(h)
  \/ \E h \in Handles, length \in ReadLengths : ReadReady(h, length)
  \/ \E h \in Handles, length \in ReadLengths : ReadCalibrate(h, length)
  \/ \E h \in Handles : ReadThrows(h)
  \/ Disconnect
  \/ TimerListen
  \/ TimerNotFound
  \/ \E h \in Handles, data \in LifeReports : Data(h, data)

Spec == Init /\ [][Next]_vars

(***************************************************************************)
(* The report pipeline: the listeners of listen and the subscription to    *)
(* 'error', on the instance of the shipped program, which connects once to *)
(* a wheel in high-precision mode; the application may call listen(true)   *)
(* itself, before or after.  The transport accepts every write here (the   *)
(* writes that raise are explored in Spec and SpecControl).  The listeners *)
(* do not read the options.                                                *)
(***************************************************************************)
ReportsNext ==
  \/ device = "none" /\ Connect /\ ~last'.thrown
  \/ \E h \in Handles, length \in ReadLengths :
       ReadReady(h, length) /\ ~last'.thrown
  \/ Listen(TRUE) /\ ~last'.thrown
  \/ OnError
  \/ OnceError
  \/ \E h \in Handles, data \in Reports : Data(h, data)
  \/ \E h \in Handles : DeviceError(h)

SpecReports == ShippedInit /\ [][ReportsNext]_vars

(***************************************************************************)
(* The methods called by the application other than connect and           *)
(* disconnect.  They read and write neither the store nor the previous     *)
(* report, and the report handlers read and write nothing these methods    *)
(* use, so they are explored in a specification of their own, SpecControl, *)
(* on an instance that the life cycle takes through every state of         *)
(* this.device: there connect is called while no device is open and the    *)
(* transport accepts the writes of the callbacks (the other outcomes of    *)
(* the life cycle are explored in Spec).  An exception of a write of a     *)
(* method goes to the caller.                                              *)
(***************************************************************************)
ControlUnchanged ==
  UNCHANGED << prependWrite, device, readPending, listeners, orphans, timers,
               userClosed, calibrations, state, lastData, errorSubscribed,
               exited, probe, promise >>

\* a method that relays the frames fs and assigns nothing
Relays(op, value, fs) ==
  /\ ~exited
  /\ \E fail \in Fails(device, fs) :
       /\ written' = relayAll(device, prependWrite, << >>, Accepted(fs, fail))
       /\ last' = [Step(op) EXCEPT !.value = value, !.thrown = fail > 0]
  /\ emitted' = << >>
  /\ UNCHANGED << options, centerings, lastLedValue, ledRequested >>
  /\ ControlUnchanged

\* leds(value), called directly or by ledsSimple: lastLedValue is assigned
\* after the write
LedsCall(op, value) ==
  LET ld == leds(lastLedValue, value)
  IN /\ ~exited
     /\ \E fail \in Fails(device, ld.frames) :
          /\ written' = relayAll(device, prependWrite, << >>,
                                 Accepted(ld.frames, fail))
          /\ lastLedValue' = IF fail > 0 THEN lastLedValue
                             ELSE ld.lastLedValue
          /\ ledRequested' = IF fail > 0 THEN ledRequested ELSE << value >>
          /\ last' = [Step(op) EXCEPT !.value = value, !.thrown = fail > 0]
     /\ emitted' = << >>
     /\ UNCHANGED << options, centerings >>
     /\ ControlUnchanged

Leds(value) == LedsCall("leds", value)

LedsSimple(value) == LedsCall("ledsSimple", ledsSimple(value))

ForceConstant(number) == Relays("forceConstant", number, forceConstant(number))

ForceFriction(number) == Relays("forceFriction", number, forceFriction(number))

ForceOff(slot) == Relays("forceOff", slot, forceOff(slot))

\* setRange() called by the application
SetRange == Relays("setRange", options.range, setRange(options.range))

\* autoCenter() called by the application: the profile is written back into
\* the options after the first frame
AutoCenter ==
  LET ac == autoCenter(options.autocenter)
  IN /\ ~exited
     /\ centerings < MaxCenterings
     /\ \E fail \in Fails(device, ac.frames) :
          /\ written' = relayAll(device, prependWrite, << >>,
                                 Accepted(ac.frames, fail))
          /\ options' = IF fail = 1 THEN options
                        ELSE [options EXCEPT !.autocenter = ac.autocenter]
          /\ last' = [Step("autoCenter") EXCEPT !.thrown = fail > 0]
     /\ centerings' = centerings + 1
     /\ emitted' = << >>
     /\ UNCHANGED << lastLedValue, ledRequested >>
     /\ ControlUnchanged

\* arrays the application hands to relay and relayOS: one of three bytes and
\* one of seven
RawFrames == { << 1, 2, 3 >>, << 248, 18, 31, 0, 0, 0, 1 >> }

\* relay(data) called by the application: data goes to the device as it is.
\* last.data is the caller's array after the call.
Relay(data) ==
  /\ ~exited
  /\ \E fail \in Fails(device, << data >>) :
       /\ written' = IF fail = 0 THEN relay(device, << >>, data) ELSE << >>
       /\ last' = [Step("relay") EXCEPT !.data = data, !.thrown = fail > 0]
  /\ emitted' = << >>
  /\ UNCHANGED << options, centerings, lastLedValue, ledRequested >>
  /\ ControlUnchanged

\* relayOS(data) called by the application: data.unshift(0x00) on win32
\* changes the caller's array
RelayOS(data) ==
  /\ ~exited
  /\ \E fail \in Fails(device, << data >>) :
       /\ written' = relayAll(device, prependWrite, << >>,
                              Accepted(<< data >>, fail))
       /\ last' = [Step("relayOS") EXCEPT !.data = relayOS(prependWrite, data),
                                          !.thrown = fail > 0]
  /\ emitted' = << >>
  /\ UNCHANGED << options, centerings, lastLedValue, ledRequested >>
  /\ ControlUnchanged

ControlNext ==
  \/ device # "open" /\ Connect /\ ~last'.thrown
  \/ \E h \in Handles : ReadError(h)
  \/ \E h \in Handles, length \in ReadLengths :
       ReadReady(h, length) /\ ~last'.thrown
  \/ \E h \in Handles, length \in ReadLengths :
       ReadCalibrate(h, length) /\ ~last'.thrown
  \/ Disconnect
  \/ TimerListen /\ ~last'.thrown
  \/ \E ready \in BOOLEAN : Listen(ready)
  \/ ListenNotFound
  \/ \E value \in LedValues : Leds(value)
  \/ \E value \in LedLevels : LedsSimple(value)
  \/ \E number \in ForceLevels : ForceConstant(number)
  \/ \E number \in ForceLevels : ForceFriction(number)
  \/ \E slot \in Slots : ForceOff(slot)
  \/ SetRange
  \/ AutoCenter
  \/ \E data \in RawFrames : Relay(data)
  \/ \E data \in RawFrames : RelayOS(data)

SpecControl == Init /\ [][ControlNext]_vars

(***************************************************************************)
(* The 'data' listener statement by statement: updateState, then one emit  *)
(* at a time (the subscribers run inside emit), then the assignment of     *)
(* lastData.  The listener is synchronous, so no other callback of the     *)
(* instance runs until it has returned.  last.pending holds the emits      *)
(* still to be made and emitted those made for the report so far.  A       *)
(* report comes from any handle that carries listeners; a handle with two  *)
(* listeners runs the listener twice on the report, one run after the      *)
(* other.                                                                  *)
(***************************************************************************)
DispatchUnchanged ==
  UNCHANGED << options, prependWrite, device, readPending, listeners, orphans,
               timers, userClosed, centerings, calibrations, lastLedValue,
               ledRequested, errorSubscribed, exited, written, probe,
               promise >>

\* mutant of HandlerUpdate: lastData is assigned before the emits
HandlerUpdate_LastDataFirst(data) ==
  /\ ~exited
  /\ \E h \in Handles : Delivers(h)
  /\ ~last.running
  /\ LET r == updateState(data, lastData, state)
     IN /\ state' = r.state
        /\ last' = [Step("update") EXCEPT
                      !.data = data, !.preState = state, !.preLast = lastData,
                      !.changes = r.changes, !.running = TRUE,
                      !.pending = DispatchEvents(r.changes, r.state, data)]
  /\ emitted' = << >>
  /\ lastData' = data
  /\ DispatchUnchanged

\* a report is delivered: const changes = updateState(data, lastData, state)
HandlerUpdate(data) ==
  /\ ~exited
  /\ \E h \in Handles : Delivers(h)
  /\ ~last.running
  /\ LET r == updateState(data, lastData, state)
     IN /\ state' = r.state
        /\ last' = [Step("update") EXCEPT
                      !.data = data, !.preState = state, !.preLast = lastData,
                      !.changes = r.changes, !.running = TRUE,
                      !.pending = DispatchEvents(r.changes, r.state, data)]
  /\ emitted' = << >>
  /\ UNCHANGED lastData
  /\ DispatchUnchanged

\* the next eventEmitter.emit of the listener
HandlerEmit ==
  /\ ~exited
  /\ last.running
  /\ last.pending # << >>
  /\ emitted' = Append(emitted, Head(last.pending))
  /\ last' = [last EXCEPT !.op = "emit", !.pending = Tail(last.pending)]
  /\ UNCHANGED << state, lastData >>
  /\ DispatchUnchanged

\* this.lastData = data, and the listener returns
HandlerReturn ==
  /\ ~exited
  /\ last.running
  /\ last.pending = << >>
  /\ lastData' = last.data
  /\ last' = [last EXCEPT !.op = "data", !.running = FALSE]
  /\ UNCHANGED << state, emitted >>
  /\ DispatchUnchanged

DispatchNext ==
  \/ ~last.running /\ device # "open" /\ Connect /\ ~last'.thrown
  \/ ~last.running /\ \E h \in Handles, length \in ReadLengths :
                        ReadReady(h, length) /\ ~last'.thrown
  \/ ~last.running /\ Disconnect
  \/ \E data \in Reports : HandlerUpdate(data)
  \/ HandlerEmit
  \/ HandlerReturn

SpecDispatch == ShippedInit /\ [][DispatchNext]_vars

(***************************************************************************)
(* The decoders and encoders on their own: the initial state holds an      *)
(* input in probe and one step applies the decoder or encoder to it.  A    *)
(* decoder is applied as updateState applies it, to the byte at its index  *)
(* of a report.  An encoder reads this.options, so its input is the        *)
(* option the instance was constructed with: the profile of an autoCenter  *)
(* request is options.autocenter, which autoCenter overwrites, and the     *)
(* range of a setRange request is the range the constructor kept.          *)
(***************************************************************************)
Bytes == 0..255

\* the values of data[4] paired with every value of data[5]
FineBytes == {0, 51, 128, 153, 255}

\* elements of a custom autocenter profile, in hundredths of [0, 1]
Hundredths == 0..100

\* the largest range requested from the constructor
MaxRangeRequest == 2100

CodecUnchanged ==
  UNCHANGED << prependWrite, device, readPending, listeners, orphans, timers,
               userClosed, centerings, calibrations, state, lastData,
               lastLedValue, ledRequested, errorSubscribed, exited, written,
               emitted, last, promise >>

\* a report that is zero except for the byte at index
ReportWith(index, value) == [ZeroReport EXCEPT ![index + 1] = value]

CodecRequests ==
  { Request("wheelDpad", 0, ReportWith(0, value)) : value \in Bytes }
  \cup { Request("shifterGear", 2, ReportWith(2, value)) : value \in Bytes }
  \cup { Request("wheelTurn", 4, [ZeroReport EXCEPT ![5] = fine, ![6] = coarse]) :
           fine \in FineBytes, coarse \in Bytes }
  \cup { Request("pedalToPercent", index, ReportWith(index, value)) :
           index \in {6, 7, 8}, value \in Bytes }
  \cup { Request("autoCenter", 0, << autocenter >>) :
           autocenter \in {AutocenterOff, AutocenterOn} }
  \cup { Request("autoCenter", 0, << AutocenterCustom(s, r) >>) :
           s \in Hundredths, r \in Hundredths }
  \cup { Request("setRange", 0, << range >>) : range \in 0..MaxRangeRequest }

\* the options of a construction, with the option the request is about
OptionsOf(request, c) ==
  CASE request.fn = "autoCenter" -> [c EXCEPT !.autocenter = request.arg[1]]
    [] request.fn = "setRange" -> [c EXCEPT !.range = request.arg[1]]
    [] OTHER -> c

CodecInit ==
  /\ probe \in CodecRequests
  /\ \E c \in Constructions : Constructor(OptionsOf(probe, c))

\* the case of updateState's switch for probe.index, on the report probe.arg
Decode(fn) ==
  /\ probe.fn = fn
  /\ ~probe.applied
  /\ probe' = [probe EXCEPT !.out = Pairs(probe.index, probe.arg),
                            !.applied = TRUE]
  /\ UNCHANGED options
  /\ CodecUnchanged

DecodeDpad == Decode("wheelDpad")

DecodeGear == Decode("shifterGear")

DecodeTurn == Decode("wheelTurn")

DecodePedal == Decode("pedalToPercent")

\* autoCenter(): the frames, and the profile it writes back into the options
EncodeAutoCenter ==
  /\ probe.fn = "autoCenter"
  /\ ~probe.applied
  /\ LET ac == autoCenter(options.autocenter)
     IN /\ probe' = [probe EXCEPT !.out = ac.frames, !.applied = TRUE]
        /\ options' = [options EXCEPT !.autocenter = ac.autocenter]
  /\ CodecUnchanged

\* setRange() on the range the constructor kept
EncodeRange ==
  /\ probe.fn = "setRange"
  /\ ~probe.applied
  /\ probe' = [probe EXCEPT !.out = setRange(options.range), !.applied = TRUE]
  /\ UNCHANGED options
  /\ CodecUnchanged

CodecNext ==
  \/ DecodeDpad
  \/ DecodeGear
  \/ DecodeTurn
  \/ DecodePedal
  \/ EncodeAutoCenter
  \/ EncodeRange

SpecCodec == CodecInit /\ [][CodecNext]_vars


(***************************************************************************)
(* Helpers of the properties.                                              *)
(***************************************************************************)
Channels(ev) == [n \in 1..Len(ev) |-> ev[n].channel]

Count(ev, channel) == Cardinality({n \in 1..Len(ev) : ev[n].channel = channel})

PairSet(seq) == { seq[n] : n \in 1..Len(seq) }

\* the pairs <<field, decoded value>> of the byte indices at which data and
\* the previous report differ
TouchedPairs(data, previous) ==
  UNION { PairSet(Pairs(index, data)) :
            index \in { i \in 0..(Len(data) - 1) : At(data, i) # At(previous, i) } }

\* a frame as handed to relayOS, without the platform's leading zero
Logical(frame) == IF prependWrite THEN Tail(frame) ELSE frame

ScenarioReport == <<0, 0, 0, 0, 0, 0, 128, 255, 255, 0, 0, 0>>

(***************************************************************************)
(* C1 - Idempotence of change detection: a report that is byte-for-byte    *)
(* identical to the previous report yields an empty changed-field set and  *)
(* leaves every field of the store unchanged.                              *)
(***************************************************************************)
C1_Idempotence ==
  (last.op = "data" /\ last.data = last.preLast)
    => (last.changes = << >> /\ state = last.preState)

C1_Witness ==
  /\ last.op = "data"
  /\ last.data = last.preLast
  /\ last.data # ZeroReport
  /\ state # EmptyObject

(***************************************************************************)
(* C2 - The changed-field set is minimal and complete: it holds the pair   *)
(* (field, newValue) exactly for the fields decoded from this report whose *)
(* new value differs from the value the store held before; the store now   *)
(* holds newValue for these fields and is unchanged for every other field. *)
(***************************************************************************)
C2_ChangedSetExact ==
  last.op = "data" =>
    LET touched == TouchedPairs(last.data, last.preLast)
        expected == { p \in touched :
                        \/ p[1] \notin DOMAIN last.preState
                        \/ last.preState[p[1]] # p[2] }
        keys == { p[1] : p \in expected }
    IN /\ PairSet(last.changes) = expected
       /\ Len(last.changes) = Cardinality(keys)
       /\ \A p \in expected : p[1] \in DOMAIN state /\ state[p[1]] = p[2]
       /\ DOMAIN state = DOMAIN last.preState \cup keys
       /\ \A k \in DOMAIN last.preState \ keys : state[k] = last.preState[k]

\* a report that re-decodes a field to the value the store already holds,
\* next to fields that do change
C2_Witness ==
  /\ last.op = "data"
  /\ Len(last.changes) > 0
  /\ \E p \in TouchedPairs(last.data, last.preLast) :
       p[1] \in DOMAIN last.preState /\ last.preState[p[1]] = p[2]

(***************************************************************************)
(* C3 - Per-field channels fire only for changed fields: an event on a     *)
(* field's channel is emitted only while a report is processed and only if *)
(* the field is in the report's changed-field set, it carries the field's  *)
(* new value, every changed field is notified exactly once, and "changes"  *)
(* fires only when the set is non-empty and carries the whole set.         *)
(***************************************************************************)
C3_FieldChannels ==
  /\ \A n \in 1..Len(emitted) :
       emitted[n].channel \in Fields =>
         /\ last.op = "data"
         /\ \E m \in 1..Len(last.changes) :
              /\ last.changes[m][1] = emitted[n].channel
              /\ last.changes[m][2] = emitted[n].payload
  /\ \A m \in 1..Len(last.changes) : Count(emitted, last.changes[m][1]) = 1
  /\ Count(emitted, "changes") = (IF Len(last.changes) > 0 THEN 1 ELSE 0)
  /\ \A n \in 1..Len(emitted) :
       emitted[n].channel = "changes" => emitted[n].payload = last.changes

\* a report that changes several fields to different values
C3_Witness ==
  /\ last.op = "data"
  /\ Len(last.changes) >= 2
  /\ \E m \in 1..Len(last.changes) : last.changes[m][2] # last.changes[1][2]
  /\ Count(emitted, "changes") = 1

(***************************************************************************)
(* C4 - "all" and "data" fire unconditionally: every report that is        *)
(* processed emits exactly one "all" and exactly one "data" event, whether *)
(* or not a field changed, and the "data" payload is the raw report.       *)
(***************************************************************************)
C4_AllAndDataAlways ==
  last.op = "data" =>
    /\ Count(emitted, "all") = 1
    /\ Count(emitted, "data") = 1
    /\ \A n \in 1..Len(emitted) :
         emitted[n].channel = "data" => emitted[n].payload = last.data

(***************************************************************************)
(* C5 - As stated: a report byte-for-byte equal to the previous report     *)
(* causes no store mutation and no dispatch, no subscriber on any channel  *)
(* is notified.                                                            *)
(***************************************************************************)
C5_NoDispatchOriginal ==
  (last.op = "data" /\ last.data = last.preLast)
    => (state = last.preState /\ emitted = << >>)

(***************************************************************************)
(* C5 as amended - a report byte-for-byte equal to the previous report     *)
(* causes no store mutation and no per-field or "changes" notification,    *)
(* but it is dispatched: its events are "all" with the store and then      *)
(* "data" with the report, from every listener that processes it.          *)
(***************************************************************************)
C5_OnlyAllAndData ==
  (last.op = "data" /\ last.data = last.preLast)
    => /\ state = last.preState
       /\ Len(emitted) = 2 * last.runs
       /\ \A n \in 1..last.runs :
            /\ emitted[2 * n - 1] = Event("all", state)
            /\ emitted[2 * n] = Event("data", last.data)

C5_Witness ==
  /\ last.op = "data"
  /\ last.data = last.preLast
  /\ state # EmptyObject
  /\ last.runs = 1
  /\ Channels(emitted) = << "all", "data" >>

(***************************************************************************)
(* C6 - The "all" channel receives a full snapshot: after every report,    *)
(* from the first one on, the payload holds a value for every field of     *)
(* RigState (the 19 wheel fields, gear and the 3 pedal fields), equal to   *)
(* the store's value.                                                      *)
(***************************************************************************)
C6_FullSnapshot ==
  last.op = "data" =>
    \A n \in 1..Len(emitted) :
      emitted[n].channel = "all" =>
        /\ DOMAIN emitted[n].payload = Fields
        /\ emitted[n].payload = state

(***************************************************************************)
(* C7 - End-to-end scenario: when the previous report is all-zero bytes,   *)
(* the report [0,0,0,0,0,0,128,255,255,0,0,0] yields the changed-field set *)
(* exactly {gas: 0.50, brake: 0.00, clutch: 0.00}; then "all" fires with   *)
(* the full snapshot (a value for every field of RigState, equal to the    *)
(* store) and "data" fires with the raw array, once each.                  *)
(***************************************************************************)
C7_Scenario ==
  (last.op = "data" /\ last.preLast = ZeroReport /\ last.data = ScenarioReport)
    => /\ PairSet(last.changes) =
            { <<"pedals-gas", 50>>, <<"pedals-brake", 0>>, <<"pedals-clutch", 0>> }
       /\ Len(last.changes) = 3
       /\ Len(emitted) = 6
       /\ \A n \in 1..4 : emitted[n].channel \notin {"all", "data"}
       /\ emitted[5] = Event("all", state)
       /\ DOMAIN emitted[5].payload = Fields
       /\ emitted[6] = Event("data", ScenarioReport)

(***************************************************************************)
(* C8 - Cancellation of the settle wait: when the transport is closed by   *)
(* disconnect while the settle timer is pending, the deferred action never *)
(* runs (the device is not reopened, no range, autocenter or LED frame is  *)
(* written, "ready" is not emitted), and no report is processed after the  *)
(* close.                                                                  *)
(***************************************************************************)
C8_SettleWaitCancelled ==
  /\ (last.op \in {"timer", "timerNotFound"} /\ last.cancelled)
       => (written = << >> /\ emitted = << >> /\ device # "open")
  /\ userClosed => last.op # "data"

(***************************************************************************)
(* C9 - No input is accepted during the settle wait: while the settle      *)
(* timer of a calibration is pending (and its wait was not interrupted by  *)
(* disconnect), no report is decoded, diffed or dispatched and "ready" is  *)
(* not emitted.                                                            *)
(***************************************************************************)
C9_NoInputDuringSettle ==
  (\E n \in 1..Len(timers) : ~timers[n].closed)
    => (last.op # "data" /\ Count(emitted, "ready") = 0)

(***************************************************************************)
(* C10 - Calibration is one-time and conditional: the two calibration      *)
(* frames are written only by the first-read callback of connect, only     *)
(* when the first report does not have length 12, once each and in order,  *)
(* at most once per connect (the callback of a connect call fires once,    *)
(* and the latest call has written at most one sequence; a sequence that a *)
(* raising write cut short is not written again, the promise is rejected   *)
(* and no settle timer is set); when the first report has length 12 no     *)
(* calibration frame is written and listening begins in the same step,     *)
(* without a settle timer.                                                 *)
(***************************************************************************)
C10_CalibrationOnce ==
  /\ calibrations <= 1
  /\ (\E n \in 1..Len(written) : Logical(written[n]) \in PairSet(CalibrationFrames))
       => (last.op = "readCalibrate" /\ last.length # 12)
  /\ last.op = "readCalibrate" =>
       /\ last.length # 12
       /\ (last.handle = 0 => readPending = "none")
       /\ Len(written) \in 1..3
       /\ \A n \in 2..Len(written) :
            Logical(written[n]) = CalibrationFrames[n - 1]
       /\ emitted = << >>
       /\ IF last.thrown
            THEN /\ Len(written) < 3
                 /\ (last.handle = 0 => calibrations = 0 /\ promise = "rejected")
            ELSE /\ Len(written) = 3
                 /\ (last.handle = 0 => calibrations = 1)
                 /\ timers # << >>
                 /\ timers[Len(timers)] =
                      [closed |-> FALSE, own |-> last.handle = 0]
  /\ last.op = "readReady" =>
       /\ last.length = 12
       /\ (last.handle = 0 => calibrations = 0 /\ readPending = "none")
       /\ (~last.thrown => listening /\ Count(emitted, "ready") = 1)
  /\ last.length = 12 => last.op # "readCalibrate"

C10_Witness ==
  /\ last.op = "readCalibrate"
  /\ last.length = 13
  /\ ~last.thrown
  /\ calibrations = 1
  /\ Len(written) = 3


(***************************************************************************)
(* C11 - A transport error after listening began is forwarded on the       *)
(* "error" channel and the pipeline keeps running: the error step emits    *)
(* "error" and nothing else, leaves the store, the previous-report record  *)
(* and the listeners as they were, and the process goes on; and a report   *)
(* that arrives after the error is decoded, diffed and dispatched against  *)
(* the store and previous report the error left behind.                    *)
(***************************************************************************)
C11_ErrorForwarded ==
  [][ /\ (last'.op = "error" =>
            /\ Count(emitted', "error") = Len(emitted')
            /\ Len(emitted') >= 1
            /\ state' = state
            /\ lastData' = lastData
            /\ listeners' = listeners
            /\ orphans' = orphans
            /\ ~exited')
      /\ (last.op = "error" /\ last'.op = "data" =>
            LET all == HandlerRuns(last'.data, last.preLast, last.preState,
                                   last'.runs)
            IN /\ state' = all.state
               /\ lastData' = last'.data
               /\ emitted' = all.emitted) ]_vars


(***************************************************************************)
(* C12 - LED write suppression: in any sequence of LED mask requests, a    *)
(* request made with the same value as the request just before it emits no *)
(* frame.  The requests are the leds(value) calls of the application, of   *)
(* ledsSimple and of listen.                                               *)
(***************************************************************************)
C12_LedSuppression ==
  [][ (/\ last'.op \in {"leds", "ledsSimple"}
       /\ ~last'.thrown
       /\ ledRequested = << last'.value >>) => written' = << >> ]_vars


(***************************************************************************)
(* C13 - Data-model invariants: in every reachable state of the store,     *)
(* from session start on, dpad is in 0..8, gear in -1..6, spinner in       *)
(* {-1, 0, 1}, turn in [0, 100] in steps of 0.01, each pedal in [0, 1] in  *)
(* steps of 0.01 (both kept in hundredths), and every button and shift     *)
(* flag is 0 or 1.                                                         *)
(***************************************************************************)
FieldRange(key) ==
  CASE key = "wheel-dpad" -> 0..8
    [] key = "shifter-gear" -> -1..6
    [] key = "wheel-spinner" -> {-1, 0, 1}
    [] key = "wheel-turn" -> 0..10000
    [] key \in PedalsFields -> 0..100
    [] OTHER -> {0, 1}

C13_DataModel ==
  \A key \in Fields : key \in DOMAIN state /\ state[key] \in FieldRange(key)


(***************************************************************************)
(* C14 - The dpad decode is total and table-exact: for every byte b in     *)
(* 0..255 it returns a value, equal to the decode of b with the button     *)
(* bits 16, 32, 64 and 128 cleared; codes 0..7 decode to 1..8 and code 8   *)
(* to 0, so raw 0 gives 1, raw 8 gives 0 and raw 6+16+64 gives the dpad of *)
(* raw 6.                                                                  *)
(***************************************************************************)
C14_DpadTable ==
  probe.fn = "wheelDpad" /\ probe.applied =>
    LET b == At(probe.arg, 0)
        code == b % 16
        dpad == probe.out[1][2]
    IN /\ probe.out[1][1] = "wheel-dpad"
       /\ dpad \in 0..8
       /\ dpad = Pairs(0, ReportWith(0, code))[1][2]
       /\ (code \in 0..7 => dpad = code + 1)
       /\ (code = 8 => dpad = 0)
       /\ (b = 0 => dpad = 1)
       /\ (b = 8 => dpad = 0)
       /\ (b = 6 + 16 + 64 => dpad = 7)

\* the byte with dpad code 6 and the button bits 16 and 64 was decoded
C14_Witness ==
  /\ probe.fn = "wheelDpad"
  /\ probe.applied
  /\ At(probe.arg, 0) = 6 + 16 + 64
  /\ probe.out[1] = << "wheel-dpad", 7 >>

(***************************************************************************)
(* C15 - The gear decode: for every byte b in 0..255 the gear equals the   *)
(* gear of b with the buttonPlus bit (128) cleared, and buttonPlus is 1    *)
(* exactly when bit 128 is set; the codes 0, 1, 2, 4, 8, 16, 32, 64 decode *)
(* to 0, 1, 2, 3, 4, 5, 6, -1, so raw 64 gives -1, raw 32 gives 6 and raw  *)
(* 2+128 gives gear 2 with buttonPlus 1.                                   *)
(***************************************************************************)
C15_GearTable ==
  probe.fn = "shifterGear" /\ probe.applied =>
    LET b == At(probe.arg, 2)
        code == b % 128
        gear == probe.out[1][2]
        plus == probe.out[2][2]
    IN /\ probe.out[1][1] = "shifter-gear"
       /\ probe.out[2][1] = "wheel-button_plus"
       /\ gear = Pairs(2, ReportWith(2, code))[1][2]
       /\ (plus = 1 <=> b >= 128)
       /\ plus \in {0, 1}
       /\ (code = 0 => gear = 0)
       /\ (code = 1 => gear = 1)
       /\ (code = 2 => gear = 2)
       /\ (code = 4 => gear = 3)
       /\ (code = 8 => gear = 4)
       /\ (code = 16 => gear = 5)
       /\ (code = 32 => gear = 6)
       /\ (code = 64 => gear = -1)
       /\ (b = 2 + 128 => gear = 2 /\ plus = 1)

\* the reverse code with the buttonPlus bit was decoded
C15_Witness ==
  /\ probe.fn = "shifterGear"
  /\ probe.applied
  /\ At(probe.arg, 2) = 64 + 128
  /\ probe.out = << <<"shifter-gear", -1>>, <<"wheel-button_plus", 1>> >>

(***************************************************************************)
(* C16 - The turn decode, in hundredths: byte4 = 0, byte5 = 0 gives 0.00;  *)
(* byte4 = 255, byte5 = 255 gives 100.00; byte4 = 0, byte5 = 128 gives a   *)
(* turn within 0.01 of 50.20.                                              *)
(***************************************************************************)
C16_TurnExamplesOriginal ==
  probe.fn = "wheelTurn" /\ probe.applied =>
    LET fine == At(probe.arg, 4)
        coarse == At(probe.arg, 5)
        turn == probe.out[1][2]
    IN /\ (fine = 0 /\ coarse = 0 => turn = 0)
       /\ (fine = 255 /\ coarse = 255 => turn = 10000)
       /\ (fine = 0 /\ coarse = 128 => turn \in 5019..5021)

\* C16 as the code has it: the turn is within half a hundredth of
\* coarse + fine = (100 * byte4 + 25500 * byte5) / 65280 and in 0..100.00;
\* (0, 0) gives 0.00, (255, 255) gives 100.00 and (0, 128) gives 50.00,
\* since 128/255 * (100 - 100/256) is exactly 50.
C16_TurnDecode ==
  probe.fn = "wheelTurn" /\ probe.applied =>
    LET fine == At(probe.arg, 4)
        coarse == At(probe.arg, 5)
        turn == probe.out[1][2]
        exact == 100 * (100 * fine + 25500 * coarse)
        diff == turn * 65280 - exact
    IN /\ probe.out[1][1] = "wheel-turn"
       /\ turn \in 0..10000
       /\ 2 * diff <= 65280
       /\ 2 * diff >= -65280
       /\ (fine = 0 /\ coarse = 0 => turn = 0)
       /\ (fine = 255 /\ coarse = 255 => turn = 10000)
       /\ (fine = 0 /\ coarse = 128 => turn = 5000)

\* the report with byte4 = 0 and byte5 = 128 was decoded
C16_Witness ==
  /\ probe.fn = "wheelTurn"
  /\ probe.applied
  /\ At(probe.arg, 4) = 0
  /\ At(probe.arg, 5) = 128
  /\ probe.out = << <<"wheel-turn", 5000>> >>

(***************************************************************************)
(* C17 - Pedal inversion: for every byte b in 0..255 the pedal value is    *)
(* round(|b - 255| / 255, 2), so it never increases as b increases; byte   *)
(* 255 gives 0.00, byte 0 gives 1.00 and byte 128 gives 0.50.              *)
(***************************************************************************)
C17_PedalInversion ==
  probe.fn = "pedalToPercent" /\ probe.applied =>
    LET b == At(probe.arg, probe.index)
        pedal == probe.out[1][2]
        diff == pedal * 255 - 100 * (255 - b)
    IN /\ probe.out[1][1] \in PedalsFields
       /\ 2 * diff < 255
       /\ 2 * diff >= -255
       /\ (b < 255 =>
             Pairs(probe.index, ReportWith(probe.index, b + 1))[1][2] <= pedal)
       /\ (b = 255 => pedal = 0)
       /\ (b = 0 => pedal = 100)
       /\ (b = 128 => pedal = 50)

\* the brake byte 128 was decoded
C17_Witness ==
  /\ probe.fn = "pedalToPercent"
  /\ probe.applied
  /\ probe.index = 7
  /\ At(probe.arg, 7) = 128
  /\ probe.out = << <<"pedals-brake", 50>> >>


(***************************************************************************)
(* C18 - Outbound frame format: every frame that a control intent (force,  *)
(* LED, range, autocenter, calibration) hands to the transport has exactly *)
(* 7 bytes when the platform flag is off, and exactly 8 bytes, a leading   *)
(* 0x00 followed by those 7, when the flag is on.  The arrays that the     *)
(* application hands to relay and relayOS itself are no control intents.   *)
(***************************************************************************)
C18_FrameFormat ==
  last.op \notin {"relay", "relayOS"} =>
    \A n \in 1..Len(written) :
      IF prependWrite
        THEN Len(written[n]) = 8 /\ written[n][1] = 0
        ELSE Len(written[n]) = 7


(***************************************************************************)
(* C19 - Autocenter encoding, for one application of the encoder to a      *)
(* profile: with autocenter off it emits the fixed off-frame; with         *)
(* autocenter on and no custom profile it emits the on-frame and the fixed *)
(* default-strength frame; with a custom profile [strength, riseRate],     *)
(* both in [0, 1], it emits the on-frame and a frame with                  *)
(* round(strength x 15), a value in 0..15, in two parameter positions and  *)
(* round(riseRate x 255), a value in 0..255, in a third.  (n is round(x)   *)
(* when -1/2 <= x - n < 1/2; the profile is kept in hundredths.)           *)
(***************************************************************************)
C19_AutocenterEncoding ==
  probe.fn = "autoCenter" /\ probe.applied =>
    LET autocenter == probe.arg[1]
        frames == probe.out
    IN /\ (~autocenter.on => frames = << <<245, 0, 0, 0, 0, 0, 0>> >>)
       /\ (autocenter.on =>
             /\ Len(frames) = 2
             /\ frames[1] = <<20, 0, 0, 0, 0, 0, 0>>
             /\ frames[2][1] = 254
             /\ frames[2][2] = 13
             /\ \A n \in 6..Len(frames[2]) : frames[2][n] = 0)
       /\ (autocenter.on /\ ~autocenter.custom =>
             << frames[2][3], frames[2][4], frames[2][5] >> = <<7, 7, 255>>)
       /\ (autocenter.on /\ autocenter.custom =>
             LET strength == frames[2][3]
                 rate == frames[2][5]
             IN /\ frames[2][4] = strength
                /\ strength \in 0..15
                /\ rate \in 0..255
                /\ 15 * autocenter.strength - 100 * strength \in -50..49
                /\ 255 * autocenter.rate - 100 * rate \in -50..49)

\* the custom profile [0.5, 0.25] was encoded: strength 8 twice, rate 64
C19_Witness ==
  /\ probe.fn = "autoCenter"
  /\ probe.applied
  /\ probe.arg[1] = AutocenterCustom(50, 25)
  /\ probe.out[2] = <<254, 13, 8, 8, 64, 0, 0, 0>>

(***************************************************************************)
(* C20 - Range encoding: for every requested range value the range frame   *)
(* is [0xf8, 0x81, lo, hi, 0, 0, 0] with lo + 256 x hi =                   *)
(* min(max(value, 40), 900); so requesting 2000 encodes the same bytes as  *)
(* requesting 900 and requesting 5 the same bytes as requesting 40.        *)
(***************************************************************************)
C20_RangeEncoding ==
  probe.fn = "setRange" /\ probe.applied =>
    LET value == probe.arg[1]
        frame == probe.out[1]
        clamped == IF value < 40 THEN 40 ELSE IF value > 900 THEN 900 ELSE value
    IN /\ Len(probe.out) = 1
       /\ Len(frame) = 7
       /\ frame[1] = 248
       /\ frame[2] = 129
       /\ frame[3] \in 0..255
       /\ frame[4] \in 0..255
       /\ frame[3] + 256 * frame[4] = clamped
       /\ << frame[5], frame[6], frame[7] >> = <<0, 0, 0>>
       /\ (value = 2000 => frame = <<248, 129, 132, 3, 0, 0, 0>>)
       /\ (value = 900 => frame = <<248, 129, 132, 3, 0, 0, 0>>)
       /\ (value = 5 => frame = <<248, 129, 40, 0, 0, 0, 0>>)
       /\ (value = 40 => frame = <<248, 129, 40, 0, 0, 0, 0>>)

\* the range 2000 was requested and encoded as 900
C20_Witness ==
  /\ probe.fn = "setRange"
  /\ probe.applied
  /\ probe.arg = << 2000 >>
  /\ probe.out = << <<248, 129, 132, 3, 0, 0, 0>> >>


(***************************************************************************)
(* C21 - Neutral force levels are force-off: on a connected wheel,         *)
(* forceConstant(0.5) writes exactly the frame forceOff(1) writes, and     *)
(* nothing else; forceFriction(0) writes exactly the frame forceOff(2)     *)
(* writes, and nothing else; forceOff writes opcode 0xf3 for slot 0 and    *)
(* 16 x slot for slots 1..4, followed by six zero bytes.  A call whose     *)
(* write raises has written nothing.                                       *)
(***************************************************************************)
OffFrame(opcode) == relayOS(prependWrite, << opcode, 0, 0, 0, 0, 0, 0 >>)

C21_NeutralIsForceOff ==
  device = "open" =>
    /\ (last.op = "forceConstant" /\ last.value = 50 =>
          written = Accepted(<< OffFrame(16) >>, IF last.thrown THEN 1 ELSE 0))
    /\ (last.op = "forceFriction" /\ last.value = 0 =>
          written = Accepted(<< OffFrame(32) >>, IF last.thrown THEN 1 ELSE 0))
    /\ (last.op = "forceOff" =>
          written = Accepted(<< OffFrame(IF last.value = 0 THEN 243
                                                          ELSE 16 * last.value) >>,
                             IF last.thrown THEN 1 ELSE 0))

\* forceConstant(0.5) was called on a connected wheel and wrote the frame of
\* forceOff(1)
C21_Witness ==
  /\ device = "open"
  /\ last.op = "forceConstant"
  /\ last.value = 50
  /\ ~last.thrown
  /\ Len(written) = 1
  /\ Logical(written[1]) = << 16, 0, 0, 0, 0, 0, 0 >>


(***************************************************************************)
(* C22 - Incremental decoding equals full decoding: after any sequence of  *)
(* 12-byte reports processed from session start, every field of the store  *)
(* equals the value obtained by decoding the most recent report in full    *)
(* (all byte indices, turn from bytes 4 and 5 together, gear from byte 2). *)
(***************************************************************************)
\* the value of every field, decoded from all the bytes of one report
FullDecode(data) ==
  LET all == UNION { PairSet(Pairs(index, data)) : index \in 0..8 }
  IN [key \in Fields |-> (CHOOSE pair \in all : pair[1] = key)[2]]

C22_IncrementalEqualsFull ==
  last.op = "data" =>
    /\ lastData = last.data
    /\ \A key \in Fields :
         key \in DOMAIN state /\ state[key] = FullDecode(lastData)[key]


(***************************************************************************)
(* C23 - The autocenter encoder is stateless: applying the autocenter      *)
(* intent twice with the same configured profile (two listen() calls of    *)
(* one instance, custom profile included) writes the same frames both      *)
(* times and leaves the configured profile unchanged.  No step changes the *)
(* profile, and every listen() writes the autocenter frames of a profile   *)
(* the instance was constructed with.                                      *)
(***************************************************************************)
C23_AutocenterStateless ==
  [][ /\ options'.autocenter = options.autocenter
      /\ (last'.op \in {"readReady", "timer"} /\ ~last'.thrown =>
            \E c \in Constructions :
              \A n \in 1..Len(autoCenter(c.autocenter).frames) :
                relayOS(prependWrite, autoCenter(c.autocenter).frames[n])
                  \in PairSet(written')) ]_vars


(***************************************************************************)
(* C24 - Dispatch order within one report: the store is completely updated *)
(* for the report before the first notification; the notifications are     *)
(* then delivered in the order changed-field channels, "changes", "all",   *)
(* "data"; the previous-report record is replaced by the new report only   *)
(* after all of them; and all of this completes before the next report is  *)
(* accepted (the notifications made at any moment are a prefix of those of *)
(* one report).                                                            *)
(***************************************************************************)
ChannelRank(channel) ==
  CASE channel \in Fields -> 0
    [] channel = "changes" -> 1
    [] channel = "all" -> 2
    [] channel = "data" -> 3
    [] OTHER -> 4

C25_ConnectSettles ==
  promise = "pending" /\ readPending = "none" =>
    calibrations = 1 /\ \E n \in 1..Len(timers) : timers[n].own

====
